---- MODULE Spec2Model ----
(***************************************************************************)
(* SWELL token subsystem (src/solana): the connection singleton, the mint  *)
(* decimals cache, the balance reader, the token-account resolver and the  *)
(* transfer pipeline, as a state machine.                                  *)
(*                                                                         *)
(* JavaScript runs one synchronous segment at a time, so one action is one *)
(* segment: the code from the return of an awaited network call up to the  *)
(* next network call it issues.  A network call is logged in the caller's  *)
(* trace when it is issued; its reply is the next action of that caller,   *)
(* with the outcome drawn from the replies the network can give.  Awaits   *)
(* of pure computations (address derivation, instruction construction)     *)
(* read no shared state and are folded into the segment that follows.      *)
(*                                                                         *)
(* Amounts are fixed-point: a finite amount v stands for v / 10^FracDigits.*)
(***************************************************************************)
EXTENDS Integers, Sequences, FiniteSets, TLC

\* ---------------------------------------------------------------- bounds
MaxConn == 2
MaxDecimals == 1
FracDigits == 1

\* ------------------------------------------------------ program constants
\* the longest sequence of provider calls one caller makes
MaxProviderCalls == 4

DEFAULT_PRIORITY_FEE_MICROLAMPORTS == 1000
DEFAULT_COMPUTE_UNITS == 100000

\* ------------------------------------------------------------ input sets
\* Each caller makes one call.  Caller 1 calls any public operation; caller 2
\* is a concurrent caller of getSwellDecimals.
Procs == {1, 2}
MainProcs == {1}

RECURSIVE Pow10(_)
Pow10(n) == IF n <= 0 THEN 1 ELSE 10 * Pow10(n - 1)

AmountScale == Pow10(FracDigits)

Finite(v) == [kind |-> "finite", v |-> v]
NaN == [kind |-> "nan", v |-> 0]
PosInfinity == [kind |-> "inf", v |-> 1]
NegInfinity == [kind |-> "inf", v |-> -1]
\* -1.0, 0, 0.5, 1.0, 1.5 when FracDigits = 1
Amounts == {Finite(v) : v \in {-10, 0, 5, 10, 15}} \cup {NaN, PosInfinity, NegInfinity}
RawBalances == {0, 1, 15}
SenderKey == "sender"
Recipients == [wellFormed : BOOLEAN, key : {"sender", "other"}]
NoFee == [given |-> FALSE, v |-> 0]
Fees == {NoFee, [given |-> TRUE, v |-> 0], [given |-> TRUE, v |-> 500]}
Blockhashes == {"bhA", "bhB"}
Signatures == {"sig1"}
Slots == {7}

\* thrown values: Error instances with a message, and one non-Error value
Messages == {"User rejected the request", "Transaction CANCELLED",
             "Permission denied", "insufficient funds for fee",
             "Blockhash not found", "block height exceeded: expired",
             "insufficient funds: blockhash expired", "fetch failed"}
NonError == [isError |-> FALSE, message |-> "thrown string"]
RawErrors == {[isError |-> TRUE, message |-> m] : m \in Messages} \cup {NonError}
Error(m) == [isError |-> TRUE, message |-> m]
\* failures of the reads, whose handlers do not look at the message
ReadErrors == {Error("fetch failed"), NonError}
\* failures of the blockhash fetch and of the simulate request
RequestErrors == {Error("fetch failed"), Error("Permission denied"), NonError}
\* failures of the signer
SignErrors == {Error("User rejected the request"), Error("Transaction CANCELLED"),
               Error("Permission denied"), Error("block height exceeded: expired"),
               Error("fetch failed"), NonError}
\* failures of the submission
SubmitErrors == {Error("insufficient funds for fee"), Error("Blockhash not found"),
                 Error("block height exceeded: expired"),
                 Error("insufficient funds: blockhash expired"),
                 Error("User rejected the request"), Error("fetch failed"), NonError}
\* failures of the wait for confirmation
ConfirmErrors == {Error("Blockhash not found"), Error("block height exceeded: expired"),
                  Error("fetch failed")}
\* failures of the detail fetch
DetailErrors == {Error("fetch failed"), NonError}
NoCause == [isError |-> FALSE, message |-> "undefined"]

\* --------------------------------------------------------------- errors
SwellErrorCode == {"INSUFFICIENT_BALANCE", "INSUFFICIENT_SOL", "INVALID_RECIPIENT",
                   "INVALID_AMOUNT", "SIMULATION_FAILED", "CONFIRMATION_FAILED",
                   "USER_REJECTED", "NETWORK_ERROR", "ACCOUNT_CREATION_FAILED",
                   "MINT_FETCH_FAILED", "UNKNOWN"}

\* new SwellTransferError(message, code, cause)
SwellTransferError(code, cause) == [typed |-> TRUE, code |-> code, cause |-> cause]
\* a thrown value that is no SwellTransferError, propagating as it is
RawThrow(e) == [typed |-> FALSE, code |-> "none", cause |-> e]
\* error instanceof Error ? error : undefined
CauseOf(e) == IF e.isError THEN e ELSE NoCause
NoError == [typed |-> FALSE, code |-> "none", cause |-> NoCause]

\* error instanceof Error ? error.message.toLowerCase() : ''
LowerMessage(e) ==
  IF ~e.isError THEN ""
  ELSE CASE e.message = "User rejected the request" -> "user rejected the request"
         [] e.message = "Transaction CANCELLED" -> "transaction cancelled"
         [] e.message = "Permission denied" -> "permission denied"
         [] e.message = "insufficient funds for fee" -> "insufficient funds for fee"
         [] e.message = "Blockhash not found" -> "blockhash not found"
         [] e.message = "block height exceeded: expired" -> "block height exceeded: expired"
         [] e.message = "insufficient funds: blockhash expired" ->
              "insufficient funds: blockhash expired"
         [] OTHER -> e.message

\* String.prototype.includes on the lower-cased messages above
Includes(s, needle) ==
  CASE needle = "rejected" -> s = "user rejected the request"
    [] needle = "cancelled" -> s = "transaction cancelled"
    [] needle = "denied" -> s = "permission denied"
    [] needle = "insufficient funds" ->
         s \in {"insufficient funds for fee", "insufficient funds: blockhash expired"}
    [] needle = "blockhash not found" -> s = "blockhash not found"
    [] needle = "expired" ->
         s \in {"block height exceeded: expired", "insufficient funds: blockhash expired"}
    [] OTHER -> FALSE

\* ---------------------------------------------------------------- state
VARIABLES
  connectionSingleton,  \* _connection: <<>> is null, <<i>> is instance i
  nextConn,             \* the next Connection instance to be constructed
  cachedDecimals,       \* _cachedDecimals: <<>> is null, <<d>> is d
  mintDecimals,         \* the decimals stored in the on-chain mint account
  call                  \* per caller: the call in progress

vars == <<connectionSingleton, nextConn, cachedDecimals, mintDecimals, call>>

\* mutant: the balance for an absent account keeps a raw amount
NoBalanceStale == [accountExists |-> FALSE, rawAmount |-> 1, decimals |-> 0]

NoBalance == [accountExists |-> FALSE, rawAmount |-> 0, decimals |-> 0]
NoTransaction == [instructions |-> <<>>, recentBlockhash |-> "",
                  lastValidBlockHeight |-> 0, feePayer |-> ""]
NoConfirm == [signature |-> "", blockhash |-> "", lastValidBlockHeight |-> 0]
NoResult == [kind |-> "none", err |-> NoError]

IdleCall ==
  [op |-> "idle", pc |-> "idle",
   amount |-> Finite(0), recipient |-> [wellFormed |-> TRUE, key |-> "other"],
   priorityFee |-> NoFee,
   connection |-> 0,          \* transferSwell / resolve: const connection
   bth |-> "none",            \* the getSwellBalance invocation of this call
   bconn |-> 0,               \*   its const connection
   bdecimals |-> <<>>,        \*   its const decimals
   balance |-> NoBalance,     \*   the TokenBalance it returned
   berr |-> NoError,          \*   the error it raised
   lenient |-> FALSE,         \*   whether it is the source that catches everything
   dth |-> "none",            \* the getSwellDecimals invocation of this call
   decimals |-> <<>>,         \*   the number it returned
   derr |-> NoError,          \*   the error it raised
   recipientAccountExists |-> FALSE,
   rawAmount |-> 0,
   blockhash |-> "",
   lastValidBlockHeight |-> 0,
   transaction |-> NoTransaction,
   signature |-> "",
   confirmWith |-> NoConfirm,  \* the strategy given to confirmTransaction
   slot |-> 0,
   result |-> NoResult,
   clearedAfterStart |-> FALSE,  \* history: the decimals cache was cleared
                                 \*   after this call started (SpecClear)
   trace |-> <<>>]

\* ------------------------------------------------------- connection.ts
\* mutant: getConnection constructs a Connection on every call
GetConnectionAlwaysNew(singleton, next) ==
  [inst |-> next, singleton |-> <<next>>, next |-> next + 1]

\* getConnection(): the instance returned and the singleton afterwards
GetConnection(singleton, next) ==
  IF singleton = <<>>
  THEN [inst |-> next, singleton |-> <<next>>, next |-> next + 1]
  ELSE [inst |-> singleton[1], singleton |-> singleton, next |-> next]

\* mutant: every network call is issued a second time
InvokeTwice(c, ev, th, conn) ==
  [c EXCEPT !.trace = Append(Append(@, [ev |-> ev, th |-> th, conn |-> conn,
                                        reply |-> "pending"]),
                             [ev |-> ev, th |-> th, conn |-> conn, reply |-> "pending"])]

\* a network call issued by call record c: logged with the connection it uses
\* and the invocation (th) that issued it: "B" the getSwellBalance and "D" the
\* getSwellDecimals of the call, "M" the call's own body
Invoke(c, ev, th, conn) ==
  [c EXCEPT !.trace = Append(@, [ev |-> ev, th |-> th, conn |-> conn, reply |-> "pending"])]

\* how many times call record c has issued the network call ev
Count(c, ev) == Cardinality({k \in DOMAIN c.trace : c.trace[k].ev = ev})

\* the reply to the pending network call ev of invocation th arrives
Reply(c, ev, th, r) ==
  [c EXCEPT !.trace = [k \in DOMAIN @ |->
     IF @[k].ev = ev /\ @[k].th = th /\ @[k].reply = "pending"
     THEN [@[k] EXCEPT !.reply = r] ELSE @[k]]]

Throw(c, e) == [c EXCEPT !.pc = "done", !.result = [kind |-> "throw", err |-> e]]
Return(c, v) == [c EXCEPT !.pc = "done",
                          !.result = [kind |-> "return", err |-> NoError, value |-> v]]

\* ------------------------------------------------------------- mint.ts
\* mutant: the cache is never consulted
CacheHitNever(cache) == FALSE

\* getSwellDecimals, line 48: if (_cachedDecimals !== null)
CacheHit(cache) == cache # <<>>

\* mutant: the value stored is not the one the fetch returned
CacheAfterFetchOffByOne(cache, d) == <<d + 1>>

\* getSwellDecimals, lines 61-62: _cachedDecimals = mintInfo.decimals
CacheAfterFetch(cache, d) == <<d>>

\* mutant: a failed fetch falls back to a default precision and stores it
CacheAfterFetchFailureStoresDefault(cache) == <<0>>

\* getSwellDecimals, lines 64-70: the catch block assigns nothing
CacheAfterFetchFailure(cache) == cache

\* getSwellDecimals, lines 65-69
MintFetchError(e) == SwellTransferError("MINT_FETCH_FAILED", CauseOf(e))

\* ---------------------------------------------------------- transfer.ts
\* mutant: the amount test is only amount <= 0, which NaN and Infinity pass
ValidateTransferNoFiniteTest(amount, recipient, senderKey) ==
  IF amount.kind = "finite" /\ amount.v <= 0 THEN "INVALID_AMOUNT"
  ELSE IF ~recipient.wellFormed THEN "INVALID_RECIPIENT"
  ELSE IF senderKey = recipient.key THEN "INVALID_RECIPIENT"
  ELSE "ok"

\* mutant: the self-transfer test is missing
ValidateTransferNoSelfTest(amount, recipient, senderKey) ==
  IF amount.kind # "finite" \/ amount.v <= 0 THEN "INVALID_AMOUNT"
  ELSE IF ~recipient.wellFormed THEN "INVALID_RECIPIENT"
  ELSE "ok"

\* transferSwell, lines 62-83: the code of the validation error, or "ok"
ValidateTransfer(amount, recipient, senderKey) ==
  IF amount.kind # "finite" \/ amount.v <= 0 THEN "INVALID_AMOUNT"
  ELSE IF ~recipient.wellFormed THEN "INVALID_RECIPIENT"
  ELSE IF senderKey = recipient.key THEN "INVALID_RECIPIENT"
  ELSE "ok"

\* senderBalance.amount < amount, with amount = rawAmount / 10^decimals
BalanceLess(bal, amount) ==
  bal.rawAmount * AmountScale < amount.v * Pow10(bal.decimals)

\* mutant: only the existence of the account is tested
CheckSenderBalanceExistsOnly(bal, amount) ==
  IF ~bal.accountExists THEN "INSUFFICIENT_BALANCE" ELSE "ok"

\* transferSwell, lines 94-106: the code of the balance error, or "ok"
CheckSenderBalance(bal, amount) ==
  IF ~bal.accountExists THEN "INSUFFICIENT_BALANCE"
  ELSE IF BalanceLess(bal, amount) THEN "INSUFFICIENT_BALANCE"
  ELSE "ok"

\* mutant: the conversion rounds up instead of down
ToRawRoundsUp(amount, decimals) ==
  (amount.v * Pow10(decimals) + AmountScale - 1) \div AmountScale

\* transferSwell, lines 112-114, and toRawAmount, line 63:
\* BigInt(Math.floor(amount * Math.pow(10, decimals)))
ToRaw(amount, decimals) == (amount.v * Pow10(decimals)) \div AmountScale

\* fromRawAmount, line 74: Number(rawAmount) / Math.pow(10, decimals), kept
\* as the exact quotient num / den
FromRaw(rawAmount, decimals) == [num |-> rawAmount, den |-> Pow10(decimals)]

\* --------------------------------------------------------------- Init
Init ==
  /\ connectionSingleton = <<>>
  /\ nextConn = 1
  /\ cachedDecimals = <<>>
  /\ mintDecimals \in 0..MaxDecimals
  /\ call = [p \in Procs |-> IdleCall]


\* a call record together with the connection singleton it runs against
Ctx(c) == [c |-> c, singleton |-> connectionSingleton, next |-> nextConn]
Commit(p, s) ==
  /\ call' = [call EXCEPT ![p] = s.c]
  /\ connectionSingleton' = s.singleton
  /\ nextConn' = s.next
WithCall(s, c) == [s EXCEPT !.c = c]

\* getSwellDecimals, lines 47-59, up to its first await
EnterGetSwellDecimals(s) ==
  IF CacheHit(cachedDecimals)
  THEN WithCall(s, [s.c EXCEPT !.dth = "ok", !.decimals = cachedDecimals])
  ELSE LET g == GetConnection(s.singleton, s.next)
       IN [c |-> Invoke([s.c EXCEPT !.dth = "mint"], "getMint", "D", g.inst),
           singleton |-> g.singleton, next |-> g.next]

\* getSwellBalance, up to its first network call: getConnection(), then the
\* nested getSwellDecimals(), then (on a cache hit) getAccount
EnterGetSwellBalance(s) ==
  LET g == GetConnection(s.singleton, s.next)
      c1 == [s.c EXCEPT !.bconn = g.inst]
  IN IF CacheHit(cachedDecimals)
     THEN [c |-> Invoke([c1 EXCEPT !.bth = "acct", !.bdecimals = cachedDecimals],
                        "getAccount.balance", "B", g.inst),
           singleton |-> g.singleton, next |-> g.next]
     ELSE [c |-> Invoke([c1 EXCEPT !.bth = "mint"], "getMint", "B", g.inst),
           singleton |-> g.singleton, next |-> g.next]

\* doesSwellAccountExist, lines 62-66, up to its getAccount
EnterDoesSwellAccountExist(s) ==
  LET g == GetConnection(s.singleton, s.next)
  IN [c |-> Invoke([s.c EXCEPT !.pc = "exists"], "getAccount.exists", "M", g.inst),
      singleton |-> g.singleton, next |-> g.next]

\* transferSwell, lines 94-110, once Promise.all has resolved
AfterAll(s) ==
  LET code == CheckSenderBalance(s.c.balance, s.c.amount)
  IN IF code # "ok"
     THEN WithCall(s, Throw(s.c, SwellTransferError(code, NoCause)))
     ELSE EnterDoesSwellAccountExist(s)

\* the caller's continuation when its getSwellDecimals() has returned
DecimalsResolved(s) ==
  CASE s.c.op = "getSwellDecimals" ->
         WithCall(s, Return(s.c, [decimals |-> s.c.decimals[1]]))
    [] s.c.op = "toRawAmount" ->
         LET raw == ToRaw(s.c.amount, s.c.decimals[1])
         IN WithCall(s, Return([s.c EXCEPT !.rawAmount = raw], [rawAmount |-> raw]))
    [] s.c.op = "fromRawAmount" ->
         WithCall(s, Return(s.c, [amount |-> FromRaw(s.c.rawAmount, s.c.decimals[1])]))
    [] s.c.op = "transferSwell" /\ s.c.pc = "all" /\ s.c.bth = "ok" -> AfterAll(s)
    [] OTHER -> s

\* the caller's continuation when its getSwellBalance() has returned
BalanceResolved(s) ==
  CASE s.c.op = "getSwellBalance" -> WithCall(s, Return(s.c, s.c.balance))
    [] s.c.op = "transferSwell" /\ s.c.pc = "all" /\ s.c.dth = "ok" -> AfterAll(s)
    [] OTHER -> s

\* the caller's continuation when one of the two has raised e: Promise.all
\* rejects with the first rejection; a caller that has already ended ignores it
Rejected(s, e) ==
  IF s.c.pc \in {"all", "decimals", "balance"} THEN WithCall(s, Throw(s.c, e)) ELSE s

\* The repository holds two sources of getSwellBalance.  They differ only in
\* what a failure other than TokenAccountNotFoundError gives: one re-raises it
\* (NETWORK_ERROR, or the MINT_FETCH_FAILED of the nested getSwellDecimals(),
\* which it calls outside its try), the other catches everything and returns a
\* zero balance.  A run makes one getSwellBalance invocation, so the source
\* that is built is chosen where the two differ (lenient) and kept in the call.

\* getSwellBalance, the catch block: what a failure e of getAccount gives
BalanceReadFailed(s, e, lenient) ==
  IF lenient
  THEN BalanceResolved(WithCall(s, [s.c EXCEPT !.bth = "ok", !.balance = NoBalance]))
  ELSE LET err == SwellTransferError("NETWORK_ERROR", CauseOf(e))
       IN Rejected(WithCall(s, [s.c EXCEPT !.bth = "err", !.berr = err]), err)

\* getSwellBalance: the nested getSwellDecimals() raised err
BalanceDecimalsFailed(s, err, lenient) ==
  IF lenient
  THEN BalanceResolved(WithCall(s, [s.c EXCEPT !.bth = "ok", !.balance = NoBalance]))
  ELSE Rejected(WithCall(s, [s.c EXCEPT !.bth = "err", !.berr = err]), err)

\* a caller's getSwellDecimals() that hit the cache returns at once
AfterEnterDecimals(s) == IF s.c.dth = "ok" THEN DecimalsResolved(s) ELSE s

\* ------------------------------------------------------- starting calls
CanStart(p) == call[p].op = "idle"

\* transferSwell, lines 52-92
StartTransferSwell(p) ==
  /\ p \in MainProcs
  /\ CanStart(p)
  /\ \E amount \in Amounts, recipient \in Recipients, fee \in Fees :
       LET g == GetConnection(connectionSingleton, nextConn)
           c0 == [IdleCall EXCEPT !.op = "transferSwell", !.pc = "all",
                                  !.amount = amount, !.recipient = recipient,
                                  !.priorityFee = fee, !.connection = g.inst]
           s0 == [c |-> c0, singleton |-> g.singleton, next |-> g.next]
           code == ValidateTransfer(amount, recipient, SenderKey)
       IN IF code # "ok"
          THEN Commit(p, WithCall(s0, Throw(c0, SwellTransferError(code, NoCause))))
          ELSE Commit(p, EnterGetSwellDecimals(EnterGetSwellBalance(s0)))
  /\ UNCHANGED <<cachedDecimals, mintDecimals>>

\* getSwellDecimals called by a caller of the module
StartGetSwellDecimals(p) ==
  /\ CanStart(p)
  /\ LET c0 == [IdleCall EXCEPT !.op = "getSwellDecimals", !.pc = "decimals"]
     IN Commit(p, AfterEnterDecimals(EnterGetSwellDecimals(Ctx(c0))))
  /\ UNCHANGED <<cachedDecimals, mintDecimals>>

\* getSwellBalance called by a caller of the module
StartGetSwellBalance(p) ==
  /\ p \in MainProcs
  /\ CanStart(p)
  /\ LET c0 == [IdleCall EXCEPT !.op = "getSwellBalance", !.pc = "balance"]
     IN Commit(p, EnterGetSwellBalance(Ctx(c0)))
  /\ UNCHANGED <<cachedDecimals, mintDecimals>>

\* toRawAmount called by a caller of the module with a finite amount
StartToRawAmount(p) ==
  /\ p \in MainProcs
  /\ CanStart(p)
  /\ \E amount \in {a \in Amounts : a.kind = "finite"} :
       LET c0 == [IdleCall EXCEPT !.op = "toRawAmount", !.pc = "decimals",
                                  !.amount = amount]
       IN Commit(p, AfterEnterDecimals(EnterGetSwellDecimals(Ctx(c0))))
  /\ UNCHANGED <<cachedDecimals, mintDecimals>>

\* fromRawAmount called by a caller of the module with a raw amount that is
\* the conversion of a finite amount under the mint's decimals; the record
\* keeps the amount that raw amount was made from
StartFromRawAmount(p) ==
  /\ p \in MainProcs
  /\ CanStart(p)
  /\ \E amount \in {a \in Amounts : a.kind = "finite"} :
       LET c0 == [IdleCall EXCEPT !.op = "fromRawAmount", !.pc = "decimals",
                                  !.amount = amount,
                                  !.rawAmount = ToRaw(amount, mintDecimals)]
       IN Commit(p, AfterEnterDecimals(EnterGetSwellDecimals(Ctx(c0))))
  /\ UNCHANGED <<cachedDecimals, mintDecimals>>

\* clearSwellDecimalsCache, mint.ts lines 77-79
ClearSwellDecimalsCache ==
  /\ cachedDecimals' = <<>>
  /\ UNCHANGED <<connectionSingleton, nextConn, mintDecimals, call>>

\* resetConnection, connection.ts lines 95-97
ResetConnection ==
  /\ connectionSingleton # <<>>
  /\ nextConn <= MaxConn
  /\ connectionSingleton' = <<>>
  /\ UNCHANGED <<nextConn, cachedDecimals, mintDecimals, call>>

\* ---------------------------------------------------- network replies
\* getMint returns the mint account
MintFetchSucceeds(p) ==
  \E th \in {"B", "D"} :
    /\ IF th = "B" THEN call[p].bth = "mint" ELSE call[p].dth = "mint"
    /\ cachedDecimals' = CacheAfterFetch(cachedDecimals, mintDecimals)
    /\ IF th = "D"
       THEN Commit(p, DecimalsResolved(Ctx(
              [Reply(call[p], "getMint", "D", "ok")
                 EXCEPT !.dth = "ok", !.decimals = <<mintDecimals>>])))
       ELSE Commit(p, Ctx(Invoke(
              [Reply(call[p], "getMint", "B", "ok")
                 EXCEPT !.bth = "acct", !.bdecimals = <<mintDecimals>>],
              "getAccount.balance", "B", call[p].bconn)))
    /\ UNCHANGED mintDecimals

\* getMint throws e
MintFetchFails(p) ==
  \E th \in {"B", "D"}, e \in ReadErrors, lenient \in BOOLEAN :
    /\ IF th = "B" THEN call[p].bth = "mint" ELSE call[p].dth = "mint"
    /\ cachedDecimals' = CacheAfterFetchFailure(cachedDecimals)
    /\ IF th = "D"
       THEN Commit(p, Rejected(Ctx(
              [Reply(call[p], "getMint", "D", "throw")
                 EXCEPT !.dth = "err", !.derr = MintFetchError(e)]),
              MintFetchError(e)))
       ELSE Commit(p, BalanceDecimalsFailed(
              Ctx([Reply(call[p], "getMint", "B", "throw") EXCEPT !.lenient = lenient]),
              MintFetchError(e), lenient))
    /\ UNCHANGED mintDecimals

\* getAccount of getSwellBalance returns the token account holding raw units
BalanceReadFound(p) ==
  /\ call[p].bth = "acct"
  /\ \E raw \in RawBalances :
       Commit(p, BalanceResolved(Ctx(
         [Reply(call[p], "getAccount.balance", "B", "ok") EXCEPT !.bth = "ok",
            !.balance = [accountExists |-> TRUE, rawAmount |-> raw,
                         decimals |-> call[p].bdecimals[1]]])))
  /\ UNCHANGED <<cachedDecimals, mintDecimals>>

\* getAccount of getSwellBalance throws TokenAccountNotFoundError
BalanceReadNotFound(p) ==
  /\ call[p].bth = "acct"
  /\ Commit(p, BalanceResolved(Ctx(
       [Reply(call[p], "getAccount.balance", "B", "notFound")
          EXCEPT !.bth = "ok", !.balance = NoBalance])))
  /\ UNCHANGED <<cachedDecimals, mintDecimals>>

\* getAccount of getSwellBalance throws anything else
BalanceReadFails(p) ==
  /\ call[p].bth = "acct"
  /\ \E e \in ReadErrors, lenient \in BOOLEAN :
       Commit(p, BalanceReadFailed(
         Ctx([Reply(call[p], "getAccount.balance", "B", "throw") EXCEPT !.lenient = lenient]),
         e, lenient))
  /\ UNCHANGED <<cachedDecimals, mintDecimals>>


\* ------------------------------------------------- the transfer pipeline
BlockhashReplies == {[blockhash |-> "bhA", lastValidBlockHeight |-> 100]}
\* simulation.value.err / confirmation.value.err: <<>> is null
NoErr == <<>>
ExecutionErrs == {<<"InstructionError">>}
BlockTimes == {<<>>, <<1700000000>>}
SOLANA_EXPLORER_URL == "https://explorer.solana.com"

\* config.ts lines 110-112
getExplorerTxUrl(signature) == <<SOLANA_EXPLORER_URL, "/tx/", signature>>

\* mutant: the configured default is not applied when the caller gives no fee
EffectivePriorityFeeNoDefault(fee) == fee.v

\* transferSwell, line 123: priorityFee ?? DEFAULT_PRIORITY_FEE_MICROLAMPORTS
EffectivePriorityFee(fee) ==
  IF fee.given THEN fee.v ELSE DEFAULT_PRIORITY_FEE_MICROLAMPORTS

\* mutant: the transfer instruction is added before the create instruction
BuildTransferTransactionTransferFirst(c, bh) ==
  LET fee == IF c.priorityFee.given THEN c.priorityFee.v
             ELSE DEFAULT_PRIORITY_FEE_MICROLAMPORTS
      budget == IF fee > 0
                THEN << [kind |-> "setComputeUnitLimit", units |-> DEFAULT_COMPUTE_UNITS],
                        [kind |-> "setComputeUnitPrice", microLamports |-> fee] >>
                ELSE << >>
      create == IF ~c.recipientAccountExists
                THEN << [kind |-> "createAssociatedTokenAccount", payer |-> SenderKey,
                         owner |-> c.recipient.key] >>
                ELSE << >>
      transfer == << [kind |-> "transfer", source |-> SenderKey,
                      destination |-> c.recipient.key, authority |-> SenderKey,
                      amount |-> c.rawAmount] >>
  IN [instructions |-> budget \o transfer \o create,
      recentBlockhash |-> bh.blockhash,
      lastValidBlockHeight |-> bh.lastValidBlockHeight,
      feePayer |-> SenderKey]

\* mutant: the recipient's account is never created
BuildTransferTransactionNoCreate(c, bh) ==
  LET fee == IF c.priorityFee.given THEN c.priorityFee.v
             ELSE DEFAULT_PRIORITY_FEE_MICROLAMPORTS
      budget == IF fee > 0
                THEN << [kind |-> "setComputeUnitLimit", units |-> DEFAULT_COMPUTE_UNITS],
                        [kind |-> "setComputeUnitPrice", microLamports |-> fee] >>
                ELSE << >>
      transfer == << [kind |-> "transfer", source |-> SenderKey,
                      destination |-> c.recipient.key, authority |-> SenderKey,
                      amount |-> c.rawAmount] >>
  IN [instructions |-> budget \o transfer,
      recentBlockhash |-> bh.blockhash,
      lastValidBlockHeight |-> bh.lastValidBlockHeight,
      feePayer |-> SenderKey]

\* transferSwell, lines 122-158
BuildTransferTransaction(c, bh) ==
  LET fee == EffectivePriorityFee(c.priorityFee)
      budget == IF fee > 0
                THEN << [kind |-> "setComputeUnitLimit", units |-> DEFAULT_COMPUTE_UNITS],
                        [kind |-> "setComputeUnitPrice", microLamports |-> fee] >>
                ELSE << >>
      create == IF ~c.recipientAccountExists
                THEN << [kind |-> "createAssociatedTokenAccount", payer |-> SenderKey,
                         owner |-> c.recipient.key] >>
                ELSE << >>
      transfer == << [kind |-> "transfer", source |-> SenderKey,
                      destination |-> c.recipient.key, authority |-> SenderKey,
                      amount |-> c.rawAmount] >>
  IN [instructions |-> budget \o create \o transfer,
      recentBlockhash |-> bh.blockhash,
      lastValidBlockHeight |-> bh.lastValidBlockHeight,
      feePayer |-> SenderKey]

\* account.ts lines 41-51: the associated token account address of a wallet
getSwellTokenAccountAddress(walletAddress) == <<"ata", walletAddress>>

\* the wallets resolveOrCreateSwellAccount is asked about
TargetWallets == {"sender", "other"}

\* mutant: the address returned is the signer's token account
TokenAccountResultOfSigner(c, existed, createSignature) ==
  [address |-> <<"ata", SenderKey>>,
   existed |-> existed, createSignature |-> createSignature]

\* the TokenAccountResult of resolveOrCreateSwellAccount, lines 129-133 and 176-180
TokenAccountResult(c, existed, createSignature) ==
  [address |-> getSwellTokenAccountAddress(c.recipient.key),
   existed |-> existed, createSignature |-> createSignature]

\* resolveOrCreateSwellAccount, lines 148-157
BuildCreateTransaction(c, bh) ==
  [instructions |-> << [kind |-> "createAssociatedTokenAccount", payer |-> SenderKey,
                        owner |-> c.recipient.key] >>,
   recentBlockhash |-> bh.blockhash,
   lastValidBlockHeight |-> bh.lastValidBlockHeight,
   feePayer |-> SenderKey]

\* mutant: confirmation is awaited without the height bound of the blockhash
ConfirmationStrategyNoHeight(c, signature) ==
  [signature |-> signature, blockhash |-> c.blockhash, lastValidBlockHeight |-> 0]

\* transferSwell lines 215-218, resolveOrCreateSwellAccount lines 171-174:
\* { signature, blockhash, lastValidBlockHeight }
ConfirmationStrategy(c, signature) ==
  [signature |-> signature, blockhash |-> c.blockhash,
   lastValidBlockHeight |-> c.lastValidBlockHeight]

\* mutant: the test of the simulation result is inverted
SimulationFailedInverted(err) == err = NoErr

\* mutant: the simulation result is not looked at
SimulationFailedIgnored(err) == FALSE

\* mutant: a confirmation carrying an execution error is taken as a success
ConfirmationFailedIgnored(err) == FALSE

\* transferSwell line 165, resolveOrCreateSwellAccount line 161: if (simulation.value.err)
SimulationFailed(err) == err # NoErr

\* transferSwell line 220: if (confirmation.value.err)
ConfirmationFailed(err) == err # NoErr

\* the wording test of transferSwell lines 187-191 and account.ts lines 188-192
IsRejection(e) ==
  \/ Includes(LowerMessage(e), "rejected")
  \/ Includes(LowerMessage(e), "cancelled")
  \/ Includes(LowerMessage(e), "denied")

\* mutant: the wording test is applied to the message as it is, not lower-cased
ClassifySignFailureCaseSensitive(e) ==
  IF e.isError /\ e.message \in {"User rejected the request", "Permission denied"}
  THEN SwellTransferError("USER_REJECTED", CauseOf(e))
  ELSE SwellTransferError("UNKNOWN", CauseOf(e))

\* transferSwell, lines 184-203: the catch around signTransaction
ClassifySignFailure(e) ==
  IF IsRejection(e) THEN SwellTransferError("USER_REJECTED", CauseOf(e))
  ELSE SwellTransferError("UNKNOWN", CauseOf(e))

\* mutant: the blockhash wording is tested before the insufficient-funds wording
ClassifySubmitFailureExpiredFirst(e) ==
  IF Includes(LowerMessage(e), "blockhash not found")
     \/ Includes(LowerMessage(e), "expired")
  THEN SwellTransferError("CONFIRMATION_FAILED", CauseOf(e))
  ELSE IF Includes(LowerMessage(e), "insufficient funds")
  THEN SwellTransferError("INSUFFICIENT_SOL", CauseOf(e))
  ELSE SwellTransferError("NETWORK_ERROR", CauseOf(e))

\* transferSwell, lines 238-270: the catch around send / confirm / getTransaction
ClassifySubmitFailure(e) ==
  IF Includes(LowerMessage(e), "insufficient funds")
  THEN SwellTransferError("INSUFFICIENT_SOL", CauseOf(e))
  ELSE IF Includes(LowerMessage(e), "blockhash not found")
          \/ Includes(LowerMessage(e), "expired")
  THEN SwellTransferError("CONFIRMATION_FAILED", CauseOf(e))
  ELSE SwellTransferError("NETWORK_ERROR", CauseOf(e))

\* resolveOrCreateSwellAccount, lines 181-205: the catch around the whole
\* build / simulate / sign / send / confirm block
ClassifyCreateFailure(e) ==
  IF IsRejection(e) THEN SwellTransferError("USER_REJECTED", CauseOf(e))
  ELSE SwellTransferError("ACCOUNT_CREATION_FAILED", CauseOf(e))

\* what a raw failure e of a network step outside every try block becomes:
\* transferSwell lines 110, 120, 164 have no handler, the resolver has its catch
UnhandledFailure(c, e) ==
  IF c.op = "resolveOrCreateSwellAccount" THEN ClassifyCreateFailure(e) ELSE RawThrow(e)

\* transferSwell lines 112-120 / resolveOrCreateSwellAccount line 146:
\* getLatestBlockhash() asks getConnection() again
EnterGetLatestBlockhash(s) ==
  LET g == GetConnection(s.singleton, s.next)
      c1 == IF s.c.op = "transferSwell"
            THEN [s.c EXCEPT !.rawAmount = ToRaw(s.c.amount, s.c.decimals[1])]
            ELSE s.c
  IN [c |-> Invoke([c1 EXCEPT !.pc = "blockhash"], "getLatestBlockhash", "M", g.inst),
      singleton |-> g.singleton, next |-> g.next]

\* doesSwellAccountExist called by a caller of the module
StartDoesSwellAccountExist(p) ==
  /\ p \in MainProcs
  /\ CanStart(p)
  /\ LET c0 == [IdleCall EXCEPT !.op = "doesSwellAccountExist"]
     IN Commit(p, EnterDoesSwellAccountExist(Ctx(c0)))
  /\ UNCHANGED <<cachedDecimals, mintDecimals>>

\* resolveOrCreateSwellAccount, lines 120-128
StartResolveOrCreateSwellAccount(p) ==
  /\ p \in MainProcs
  /\ CanStart(p)
  /\ \E targetWallet \in TargetWallets :
       LET g == GetConnection(connectionSingleton, nextConn)
           c0 == [IdleCall EXCEPT !.op = "resolveOrCreateSwellAccount", !.pc = "exists",
                                  !.recipient = [wellFormed |-> TRUE, key |-> targetWallet],
                                  !.connection = g.inst]
       IN Commit(p, [c |-> Invoke(c0, "getAccount.exists", "M", g.inst),
                     singleton |-> g.singleton, next |-> g.next])
  /\ UNCHANGED <<cachedDecimals, mintDecimals>>

\* getAccount of the existence check returns the account
ExistsReadFound(p) ==
  /\ call[p].pc = "exists"
  /\ LET c == Reply(call[p], "getAccount.exists", "M", "ok")
     IN CASE c.op = "doesSwellAccountExist" -> Commit(p, Ctx(Return(c, [exists |-> TRUE])))
          [] c.op = "resolveOrCreateSwellAccount" ->
               Commit(p, Ctx(Return(c, TokenAccountResult(c, TRUE, <<>>))))
          [] OTHER ->
               Commit(p, EnterGetLatestBlockhash(Ctx(
                 [c EXCEPT !.recipientAccountExists = TRUE])))
  /\ UNCHANGED <<cachedDecimals, mintDecimals>>

\* getAccount of the existence check throws TokenAccountNotFoundError
ExistsReadNotFound(p) ==
  /\ call[p].pc = "exists"
  /\ LET c == Reply(call[p], "getAccount.exists", "M", "notFound")
     IN IF c.op = "doesSwellAccountExist"
        THEN Commit(p, Ctx(Return(c, [exists |-> FALSE])))
        ELSE Commit(p, EnterGetLatestBlockhash(Ctx(
               [c EXCEPT !.recipientAccountExists = FALSE])))
  /\ UNCHANGED <<cachedDecimals, mintDecimals>>

\* getAccount of the existence check throws anything else: doesSwellAccountExist
\* rethrows it (line 72), the resolver wraps it (lines 135-141)
ExistsReadFails(p) ==
  /\ call[p].pc = "exists"
  /\ \E e \in ReadErrors :
       LET c == Reply(call[p], "getAccount.exists", "M", "throw")
       IN IF c.op = "resolveOrCreateSwellAccount"
          THEN Commit(p, Ctx(Throw(c, SwellTransferError("NETWORK_ERROR", CauseOf(e)))))
          ELSE Commit(p, Ctx(Throw(c, RawThrow(e))))
  /\ UNCHANGED <<cachedDecimals, mintDecimals>>

\* getLatestBlockhash returns: the transaction is built and simulated
BlockhashReturns(p) ==
  /\ call[p].pc = "blockhash"
  /\ \E bh \in BlockhashReplies :
       LET c == Reply(call[p], "getLatestBlockhash", "M", "ok")
           tx == IF c.op = "transferSwell" THEN BuildTransferTransaction(c, bh)
                 ELSE BuildCreateTransaction(c, bh)
       IN Commit(p, Ctx(Invoke(
            [c EXCEPT !.pc = "simulate", !.blockhash = bh.blockhash,
                      !.lastValidBlockHeight = bh.lastValidBlockHeight,
                      !.transaction = tx],
            "simulateTransaction", "M", c.connection)))
  /\ UNCHANGED <<cachedDecimals, mintDecimals>>

BlockhashFails(p) ==
  /\ call[p].pc = "blockhash"
  /\ \E e \in RequestErrors :
       LET c == Reply(call[p], "getLatestBlockhash", "M", "throw")
       IN Commit(p, Ctx(Throw(c, UnhandledFailure(c, e))))
  /\ UNCHANGED <<cachedDecimals, mintDecimals>>

\* simulateTransaction returns with value.err = err
SimulateReturns(p) ==
  /\ call[p].pc = "simulate"
  /\ \E err \in {NoErr} \cup ExecutionErrs :
       LET c == Reply(call[p], "simulateTransaction", "M",
                      IF err = NoErr THEN "ok" ELSE "err")
       IN IF SimulationFailed(err)
          THEN Commit(p, Ctx(Throw(c, SwellTransferError("SIMULATION_FAILED", NoCause))))
          ELSE Commit(p, Ctx(Invoke([c EXCEPT !.pc = "sign"], "signTransaction", "M", 0)))
  /\ UNCHANGED <<cachedDecimals, mintDecimals>>

\* the simulate request itself fails
SimulateFails(p) ==
  /\ call[p].pc = "simulate"
  /\ \E e \in RequestErrors :
       LET c == Reply(call[p], "simulateTransaction", "M", "throw")
       IN Commit(p, Ctx(Throw(c, UnhandledFailure(c, e))))
  /\ UNCHANGED <<cachedDecimals, mintDecimals>>

\* the signer returns the signed transaction, which is submitted
SignReturns(p) ==
  /\ call[p].pc = "sign"
  /\ LET c == Reply(call[p], "signTransaction", "M", "ok")
     IN Commit(p, Ctx(Invoke([c EXCEPT !.pc = "send"], "sendRawTransaction", "M",
                             c.connection)))
  /\ UNCHANGED <<cachedDecimals, mintDecimals>>

SignFails(p) ==
  /\ call[p].pc = "sign"
  /\ \E e \in SignErrors :
       LET c == Reply(call[p], "signTransaction", "M", "throw")
       IN Commit(p, Ctx(Throw(c, IF c.op = "transferSwell" THEN ClassifySignFailure(e)
                                 ELSE ClassifyCreateFailure(e))))
  /\ UNCHANGED <<cachedDecimals, mintDecimals>>

\* sendRawTransaction returns the signature; confirmation is awaited
SendReturns(p) ==
  /\ call[p].pc = "send"
  /\ \E sig \in Signatures :
       LET c == Reply(call[p], "sendRawTransaction", "M", "ok")
       IN Commit(p, Ctx(Invoke(
            [c EXCEPT !.pc = "confirm", !.signature = sig,
                      !.confirmWith = ConfirmationStrategy(c, sig)],
            "confirmTransaction", "M", c.connection)))
  /\ UNCHANGED <<cachedDecimals, mintDecimals>>

SendFails(p) ==
  /\ call[p].pc = "send"
  /\ \E e \in SubmitErrors :
       LET c == Reply(call[p], "sendRawTransaction", "M", "throw")
       IN Commit(p, Ctx(Throw(c, IF c.op = "transferSwell" THEN ClassifySubmitFailure(e)
                                 ELSE ClassifyCreateFailure(e))))
  /\ UNCHANGED <<cachedDecimals, mintDecimals>>

\* confirmTransaction returns with value.err = err at context.slot = slot.
\* transferSwell raises on err and otherwise fetches the transaction; the
\* resolver does not look at the result (lines 171-180)
ConfirmReturns(p) ==
  /\ call[p].pc = "confirm"
  /\ \E err \in {NoErr} \cup ExecutionErrs, slot \in Slots :
       LET c == [Reply(call[p], "confirmTransaction", "M",
                       IF err = NoErr THEN "ok" ELSE "err") EXCEPT !.slot = slot]
       IN IF c.op = "resolveOrCreateSwellAccount"
          THEN Commit(p, Ctx(Return(c, TokenAccountResult(c, FALSE, <<c.signature>>))))
          ELSE IF ConfirmationFailed(err)
          THEN Commit(p, Ctx(Throw(c, SwellTransferError("CONFIRMATION_FAILED", NoCause))))
          ELSE Commit(p, Ctx(Invoke([c EXCEPT !.pc = "getTx"], "getTransaction", "M",
                                    c.connection)))
  /\ UNCHANGED <<cachedDecimals, mintDecimals>>

ConfirmFails(p) ==
  /\ call[p].pc = "confirm"
  /\ \E e \in ConfirmErrors :
       LET c == Reply(call[p], "confirmTransaction", "M", "throw")
       IN Commit(p, Ctx(Throw(c, IF c.op = "transferSwell" THEN ClassifySubmitFailure(e)
                                 ELSE ClassifyCreateFailure(e))))
  /\ UNCHANGED <<cachedDecimals, mintDecimals>>

\* getTransaction returns the details (or null): transferSwell lines 232-237
GetTransactionReturns(p) ==
  /\ call[p].pc = "getTx"
  /\ \E bt \in BlockTimes :
       LET c == Reply(call[p], "getTransaction", "M", "ok")
       IN Commit(p, Ctx(Return(c, [signature |-> c.signature, slot |-> c.slot,
                                   blockTime |-> bt,
                                   explorerUrl |-> getExplorerTxUrl(c.signature)])))
  /\ UNCHANGED <<cachedDecimals, mintDecimals>>

GetTransactionFails(p) ==
  /\ call[p].pc = "getTx"
  /\ \E e \in DetailErrors :
       LET c == Reply(call[p], "getTransaction", "M", "throw")
       IN Commit(p, Ctx(Throw(c, ClassifySubmitFailure(e))))
  /\ UNCHANGED <<cachedDecimals, mintDecimals>>

\* --------------------------------------------------------------- Next
CallStep ==
  \/ \E p \in Procs : StartTransferSwell(p)
  \/ \E p \in Procs : StartGetSwellDecimals(p)
  \/ \E p \in Procs : StartGetSwellBalance(p)
  \/ \E p \in Procs : StartDoesSwellAccountExist(p)
  \/ \E p \in Procs : StartResolveOrCreateSwellAccount(p)
  \/ \E p \in Procs : StartToRawAmount(p)
  \/ \E p \in Procs : StartFromRawAmount(p)
  \/ \E p \in Procs : MintFetchSucceeds(p)
  \/ \E p \in Procs : MintFetchFails(p)
  \/ \E p \in Procs : BalanceReadFound(p)
  \/ \E p \in Procs : BalanceReadNotFound(p)
  \/ \E p \in Procs : BalanceReadFails(p)
  \/ \E p \in Procs : ExistsReadFound(p)
  \/ \E p \in Procs : ExistsReadNotFound(p)
  \/ \E p \in Procs : ExistsReadFails(p)
  \/ \E p \in Procs : BlockhashReturns(p)
  \/ \E p \in Procs : BlockhashFails(p)
  \/ \E p \in Procs : SimulateReturns(p)
  \/ \E p \in Procs : SimulateFails(p)
  \/ \E p \in Procs : SignReturns(p)
  \/ \E p \in Procs : SignFails(p)
  \/ \E p \in Procs : SendReturns(p)
  \/ \E p \in Procs : SendFails(p)
  \/ \E p \in Procs : ConfirmReturns(p)
  \/ \E p \in Procs : ConfirmFails(p)
  \/ \E p \in Procs : GetTransactionReturns(p)
  \/ \E p \in Procs : GetTransactionFails(p)

Next ==
  \/ CallStep
  \/ ClearSwellDecimalsCache
  \/ ResetConnection

Spec == Init /\ [][Next]_vars

\* the process when nobody calls clearSwellDecimalsCache
NextNoClear ==
  \/ CallStep
  \/ ResetConnection

SpecNoClear == Init /\ [][NextNoClear]_vars


\* ------------------------------------------- the connection provider alone
\* createConnection, connection.ts lines 82-87: a new Connection that is not
\* stored
CreateConnection(singleton, next) ==
  [inst |-> next, singleton |-> singleton, next |-> next + 1]

\* the call record of a caller that calls the provider's functions one after
\* the other: each call is logged with the instance it returned (0: none)
ProviderCall(c, ev, inst) ==
  [c EXCEPT !.op = "connectionCalls", !.pc = "done",
            !.trace = Append(@, [ev |-> ev, th |-> "M", conn |-> inst, reply |-> "ok"])]

CanCallProvider(p) ==
  /\ p \in MainProcs
  /\ call[p].op \in {"idle", "connectionCalls"}
  /\ Len(call[p].trace) < MaxProviderCalls

\* getConnection(), connection.ts lines 55-60
CallGetConnection(p) ==
  /\ CanCallProvider(p)
  /\ LET g == GetConnection(connectionSingleton, nextConn)
     IN Commit(p, [c |-> ProviderCall(call[p], "getConnection", g.inst),
                   singleton |-> g.singleton, next |-> g.next])
  /\ UNCHANGED <<cachedDecimals, mintDecimals>>

\* createConnection(), connection.ts lines 82-87
CallCreateConnection(p) ==
  /\ CanCallProvider(p)
  /\ LET g == CreateConnection(connectionSingleton, nextConn)
     IN Commit(p, [c |-> ProviderCall(call[p], "createConnection", g.inst),
                   singleton |-> g.singleton, next |-> g.next])
  /\ UNCHANGED <<cachedDecimals, mintDecimals>>

\* resetConnection(), connection.ts lines 95-97, called by the same caller
CallResetConnection(p) ==
  /\ CanCallProvider(p)
  /\ Commit(p, [c |-> ProviderCall(call[p], "resetConnection", 0),
                singleton |-> <<>>, next |-> nextConn])
  /\ UNCHANGED <<cachedDecimals, mintDecimals>>

NextConnection ==
  \/ \E p \in Procs : CallGetConnection(p)
  \/ \E p \in Procs : CallCreateConnection(p)
  \/ \E p \in Procs : CallResetConnection(p)

SpecConnection == Init /\ [][NextConnection]_vars

\* ------------------------------------------------ the decimals cache alone
\* clearSwellDecimalsCache, mint.ts lines 77-79, noted in the record of every
\* call that has started before it
ClearSwellDecimalsCacheObserved ==
  /\ cachedDecimals' = <<>>
  /\ call' = [p \in Procs |->
                IF call[p].op = "idle" THEN call[p]
                ELSE [call[p] EXCEPT !.clearedAfterStart = TRUE]]
  /\ UNCHANGED <<connectionSingleton, nextConn, mintDecimals>>

\* getSwellDecimals callers and clearSwellDecimalsCache
NextClear ==
  \/ \E p \in Procs : StartGetSwellDecimals(p)
  \/ \E p \in Procs : MintFetchSucceeds(p)
  \/ \E p \in Procs : MintFetchFails(p)
  \/ ClearSwellDecimalsCacheObserved

SpecClear == Init /\ [][NextClear]_vars

\* ------------------------------------------------------------- claims
Invoked(c, ev) == Count(c, ev) > 0
Replied(c, ev, r) ==
  \E k \in DOMAIN c.trace : c.trace[k].ev = ev /\ c.trace[k].reply = r
Raised(c, code) ==
  /\ c.pc = "done"
  /\ c.result.kind = "throw"
  /\ c.result.err.typed
  /\ c.result.err.code = code
\* the network calls of the call's own body, in the order they were issued
MainTrace(c) == SelectSeq(c.trace, LAMBDA e : e.th = "M")
EventNames(s) == [k \in DOMAIN s |-> s[k].ev]
AmountIsInvalid(a) == a.kind # "finite" \/ a.v <= 0
RecipientIsBad(r) == ~r.wellFormed \/ r.key = SenderKey
BalanceIsInsufficient(c) ==
  \/ ~c.balance.accountExists
  \/ c.balance.rawAmount * AmountScale < c.amount.v * Pow10(c.balance.decimals)

\* C1: in transferSwell, when simulation reports an error the call raises
\* SIMULATION_FAILED and the signer, sendRawTransaction and confirmTransaction
\* are never invoked in that call.
C1_SimulationErrorStopsPipeline ==
  \A p \in Procs :
    (call[p].op = "transferSwell" /\ Replied(call[p], "simulateTransaction", "err")) =>
      /\ Raised(call[p], "SIMULATION_FAILED")
      /\ ~Invoked(call[p], "signTransaction")
      /\ ~Invoked(call[p], "sendRawTransaction")
      /\ ~Invoked(call[p], "confirmTransaction")

C1_Witness ==
  \E p \in Procs :
    /\ call[p].op = "transferSwell"
    /\ Replied(call[p], "simulateTransaction", "err")
    /\ Raised(call[p], "SIMULATION_FAILED")

\* C2 as stated: an invalid amount raises INVALID_AMOUNT, and a malformed or
\* self recipient raises INVALID_RECIPIENT, each before any network call.
C2_Original ==
  \A p \in Procs :
    call[p].op = "transferSwell" =>
      /\ AmountIsInvalid(call[p].amount) =>
           (Raised(call[p], "INVALID_AMOUNT") /\ call[p].trace = <<>>)
      /\ RecipientIsBad(call[p].recipient) =>
           (Raised(call[p], "INVALID_RECIPIENT") /\ call[p].trace = <<>>)

\* C2 amended: an invalid amount raises INVALID_AMOUNT; a malformed or self
\* recipient raises INVALID_RECIPIENT when the amount is valid (the amount is
\* tested first); either error is raised before any network call is issued.
C2_ValidationBeforeAnyNetworkCall ==
  \A p \in Procs :
    call[p].op = "transferSwell" =>
      /\ AmountIsInvalid(call[p].amount) =>
           (Raised(call[p], "INVALID_AMOUNT") /\ call[p].trace = <<>>)
      /\ (~AmountIsInvalid(call[p].amount) /\ RecipientIsBad(call[p].recipient)) =>
           (Raised(call[p], "INVALID_RECIPIENT") /\ call[p].trace = <<>>)

C2_Witness ==
  \E p \in Procs :
    /\ call[p].op = "transferSwell"
    /\ ~AmountIsInvalid(call[p].amount)
    /\ ~call[p].recipient.wellFormed
    /\ Raised(call[p], "INVALID_RECIPIENT")
    /\ call[p].trace = <<>>

\* C3: when the sender balance that transferSwell read shows no token account,
\* or less than the requested amount, no blockhash is fetched, nothing is
\* simulated, signed or submitted and no transaction is built; and the call,
\* its balance and decimals reads having returned, raises INSUFFICIENT_BALANCE.
C3_InsufficientBalanceBuildsNothing ==
  \A p \in Procs :
    (call[p].op = "transferSwell" /\ call[p].bth = "ok"
       /\ BalanceIsInsufficient(call[p])) =>
      /\ ~Invoked(call[p], "getLatestBlockhash")
      /\ ~Invoked(call[p], "simulateTransaction")
      /\ ~Invoked(call[p], "signTransaction")
      /\ ~Invoked(call[p], "sendRawTransaction")
      /\ call[p].transaction = NoTransaction
      /\ call[p].dth = "ok" => Raised(call[p], "INSUFFICIENT_BALANCE")

C3_Witness ==
  \E p \in Procs :
    /\ call[p].op = "transferSwell"
    /\ call[p].balance.accountExists
    /\ call[p].balance.rawAmount > 0
    /\ BalanceIsInsufficient(call[p])
    /\ Raised(call[p], "INSUFFICIENT_BALANCE")

\* C4: every call of a public operation that ends either returns or raises a
\* typed SwellTransferError whose code is in the taxonomy, at whichever
\* network step the failure occurs.
C4_EveryFailureIsTyped ==
  \A p \in Procs :
    call[p].pc = "done" =>
      \/ call[p].result.kind = "return"
      \/ /\ call[p].result.kind = "throw"
         /\ call[p].result.err.typed
         /\ call[p].result.err.code \in SwellErrorCode

RECURSIVE MintFetchesOf(_)
MintFetchesOf(S) ==
  IF S = {} THEN 0
  ELSE LET p == CHOOSE x \in S : TRUE
       IN Count(call[p], "getMint") + MintFetchesOf(S \ {p})

\* C5 as stated: with no clearSwellDecimalsCache, the mint fetch is issued at
\* most once, whatever calls are made and however they overlap.
C5_Original == MintFetchesOf(Procs) <= 1

MintFetchSucceeded ==
  \E p \in Procs : Replied(call[p], "getMint", "ok")

\* C5 amended: with no clearSwellDecimalsCache, once a mint fetch has succeeded
\* the cache holds the mint's decimals, and every call that starts while the
\* cache is filled (getSwellDecimals, or the getSwellDecimals inside
\* getSwellBalance and transferSwell) gets the cached value and issues no fetch.
C5_CachedValueAfterSuccessfulFetch ==
  [][ /\ (MintFetchSucceeded => cachedDecimals = <<mintDecimals>>)'
      /\ \A p \in Procs :
           (call[p].op = "idle" /\ call'[p].op # "idle" /\ cachedDecimals # <<>>) =>
             /\ ~Invoked(call'[p], "getMint")
             /\ call'[p].op = "getSwellDecimals" =>
                  /\ call'[p].result.kind = "return"
                  /\ call'[p].result.value.decimals = cachedDecimals[1]
             /\ call'[p].op = "getSwellBalance" =>
                  call'[p].bdecimals = cachedDecimals
             /\ (call'[p].op = "transferSwell" /\ call'[p].pc # "done") =>
                  /\ call'[p].bdecimals = cachedDecimals
                  /\ call'[p].decimals = cachedDecimals
    ]_vars

C5_Witness ==
  \E p \in Procs :
    /\ call[p].op = "getSwellDecimals"
    /\ call[p].result.kind = "return"
    /\ call[p].trace = <<>>
    /\ MintFetchSucceeded

\* the pending getMint of invocation th of caller p is answered by a failure
MintFetchFailedIn(p, th) ==
  \E k \in DOMAIN call[p].trace :
    /\ call[p].trace[k].ev = "getMint"
    /\ call[p].trace[k].th = th
    /\ call[p].trace[k].reply = "pending"
    /\ call'[p].trace[k].reply = "throw"

\* C6: a failed mint fetch stores nothing (the cache is as it was, so an empty
\* cache stays empty), the getSwellDecimals that issued it raises
\* MINT_FETCH_FAILED, and a getSwellDecimals call that finds the cache empty
\* issues a new fetch.
C6_FailedFetchLeavesCacheEmpty ==
  [][ \A p \in Procs :
        /\ (MintFetchFailedIn(p, "B") \/ MintFetchFailedIn(p, "D")) =>
             cachedDecimals' = cachedDecimals
        /\ MintFetchFailedIn(p, "D") =>
             /\ call'[p].derr.typed
             /\ call'[p].derr.code = "MINT_FETCH_FAILED"
             /\ call[p].op = "getSwellDecimals" => Raised(call'[p], "MINT_FETCH_FAILED")
        /\ (call[p].op = "idle" /\ call'[p].op = "getSwellDecimals"
              /\ cachedDecimals = <<>>) =>
             (Count(call'[p], "getMint") = 1 /\ call'[p].pc = "decimals")
    ]_vars

C6_Witness ==
  \E p, q \in Procs :
    /\ call[p].op = "getSwellDecimals"
    /\ Raised(call[p], "MINT_FETCH_FAILED")
    /\ call[q].op = "getSwellDecimals"
    /\ call[q].result.kind = "return"
    /\ Replied(call[q], "getMint", "ok")
    /\ cachedDecimals = <<mintDecimals>>

\* C7: transferSwell returns a TransferResult only after, in this order,
\* validation passed, the balance was read and found sufficient, a blockhash
\* was fetched and set on the transaction, simulation reported no error, the
\* signer returned, the transaction was submitted and confirmation reported
\* no error; and no network call of the call's body is issued while an
\* earlier network call of the call is still unanswered.
C7_ReturnOnlyAfterOrderedSteps ==
  \A p \in Procs :
    call[p].op = "transferSwell" =>
      /\ \A j \in DOMAIN call[p].trace :
           call[p].trace[j].th = "M" =>
             \A i \in 1..(j - 1) : call[p].trace[i].reply # "pending"
      /\ call[p].result.kind = "return" =>
           /\ ~AmountIsInvalid(call[p].amount)
           /\ ~RecipientIsBad(call[p].recipient)
           /\ Replied(call[p], "getAccount.balance", "ok")
           /\ ~BalanceIsInsufficient(call[p])
           /\ EventNames(MainTrace(call[p])) =
                <<"getAccount.exists", "getLatestBlockhash", "simulateTransaction",
                  "signTransaction", "sendRawTransaction", "confirmTransaction",
                  "getTransaction">>
           /\ MainTrace(call[p])[1].reply \in {"ok", "notFound"}
           /\ \A k \in 2..7 : MainTrace(call[p])[k].reply = "ok"
           /\ call[p].blockhash \in {r.blockhash : r \in BlockhashReplies}
           /\ call[p].transaction.recentBlockhash = call[p].blockhash

C7_Witness ==
  \E p \in Procs :
    /\ call[p].op = "transferSwell"
    /\ call[p].result.kind = "return"

PipelineEvents == {"getLatestBlockhash", "simulateTransaction", "signTransaction",
                   "sendRawTransaction", "confirmTransaction"}

\* C8: within one transferSwell or resolveOrCreateSwellAccount call the
\* blockhash fetch, simulateTransaction, signTransaction, sendRawTransaction
\* and confirmTransaction are each invoked at most once, and once one of them
\* has failed the call has ended and has issued nothing after it.
C8_SingleAttemptPerStep ==
  \A p \in Procs :
    call[p].op \in {"transferSwell", "resolveOrCreateSwellAccount"} =>
      /\ \A ev \in PipelineEvents : Count(call[p], ev) <= 1
      /\ \A k \in DOMAIN call[p].trace :
           (call[p].trace[k].ev \in PipelineEvents
              /\ call[p].trace[k].reply \in {"throw", "err"}) =>
             /\ call[p].pc = "done"
             /\ k = Len(call[p].trace)

C8_Witness ==
  \E p \in Procs :
    /\ call[p].op \in {"transferSwell", "resolveOrCreateSwellAccount"}
    /\ Replied(call[p], "sendRawTransaction", "throw")
    /\ call[p].pc = "done"

\* the amount is not a whole number of raw units at d decimals
HasExcessPrecision(a, d) ==
  a.kind = "finite" /\ a.v > 0 /\ (a.v * Pow10(d)) % AmountScale # 0

\* C9: a transfer amount with more fractional precision than the token's
\* decimals is rejected (INVALID_AMOUNT, before any network call); it is never
\* rounded down and transferred: it is never submitted and the call never
\* returns a TransferResult.
C9_ExcessPrecisionNeverTransferred ==
  \A p \in Procs :
    (call[p].op = "transferSwell"
       /\ HasExcessPrecision(call[p].amount, mintDecimals)) =>
      /\ ~Invoked(call[p], "sendRawTransaction")
      /\ call[p].result.kind # "return"

\* C10 as stated: every transferSwell call whose recipient equals the sender's
\* public key raises INVALID_RECIPIENT.
C10_Original ==
  \A p \in Procs :
    (call[p].op = "transferSwell" /\ call[p].recipient.wellFormed
       /\ call[p].recipient.key = SenderKey) =>
      Raised(call[p], "INVALID_RECIPIENT")

\* C10 amended: every transferSwell call with a valid amount (finite, > 0)
\* whose recipient equals the sender's public key raises INVALID_RECIPIENT;
\* the balance is never read, so this holds whatever the sender holds.
C10_SelfTransferRejected ==
  \A p \in Procs :
    (call[p].op = "transferSwell" /\ call[p].recipient.wellFormed
       /\ call[p].recipient.key = SenderKey
       /\ ~AmountIsInvalid(call[p].amount)) =>
      /\ Raised(call[p], "INVALID_RECIPIENT")
      /\ ~Invoked(call[p], "getAccount.balance")

C10_Witness ==
  \E p \in Procs :
    /\ call[p].op = "transferSwell"
    /\ call[p].recipient.wellFormed
    /\ call[p].recipient.key = SenderKey
    /\ ~AmountIsInvalid(call[p].amount)
    /\ Raised(call[p], "INVALID_RECIPIENT")

\* the transaction a transferSwell call has built, once it has built one
BuiltTransfer(c) == c.op = "transferSwell" /\ c.transaction # NoTransaction
InstructionKinds(tx) == [k \in DOMAIN tx.instructions |-> tx.instructions[k].kind]
HasInstruction(tx, kind) == \E k \in DOMAIN tx.instructions : tx.instructions[k].kind = kind
\* the place of an instruction kind in the order of transfer.ts lines 125-155
InstructionRank(kind) ==
  CASE kind = "setComputeUnitLimit" -> 1
    [] kind = "setComputeUnitPrice" -> 2
    [] kind = "createAssociatedTokenAccount" -> 3
    [] kind = "transfer" -> 4
    [] OTHER -> 0

\* C11: the transaction transferSwell builds lists its instructions in the
\* order compute-unit-limit, compute-unit-price, create-associated-account,
\* token-transfer (each at most once); the create instruction is present
\* exactly when the recipient's account was found not to exist, and is paid by
\* the sender for the recipient; exactly one transfer instruction is present
\* and it is last; the sender is the fee payer.
C11_InstructionOrder ==
  \A p \in Procs :
    BuiltTransfer(call[p]) =>
      LET tx == call[p].transaction
          ins == tx.instructions
          n == Len(ins)
      IN /\ n >= 1
         /\ \A k \in 1..n : InstructionRank(ins[k].kind) > 0
         /\ \A j, k \in 1..n :
              j < k => InstructionRank(ins[j].kind) < InstructionRank(ins[k].kind)
         /\ ins[n].kind = "transfer"
         /\ Cardinality({k \in 1..n : ins[k].kind = "transfer"}) = 1
         /\ HasInstruction(tx, "createAssociatedTokenAccount")
              <=> Replied(call[p], "getAccount.exists", "notFound")
         /\ \A k \in 1..n :
              ins[k].kind = "createAssociatedTokenAccount" =>
                (ins[k].payer = SenderKey /\ ins[k].owner = call[p].recipient.key)
         /\ tx.feePayer = SenderKey

C11_Witness ==
  \E p \in Procs :
    /\ BuiltTransfer(call[p])
    /\ InstructionKinds(call[p].transaction) =
         <<"setComputeUnitLimit", "setComputeUnitPrice",
           "createAssociatedTokenAccount", "transfer">>
    /\ Replied(call[p], "getAccount.exists", "notFound")

\* the fee the caller asked for: the priorityFee given, else the configured default
RequestedFee(c) ==
  IF c.priorityFee.given THEN c.priorityFee.v ELSE DEFAULT_PRIORITY_FEE_MICROLAMPORTS

\* C12: the transaction transferSwell builds holds the two compute-budget
\* instructions (both or neither) exactly when the effective priority fee (the
\* caller's priorityFee, or the configured default when none is given) is
\* non-zero; the limit is the configured compute units and the price is the
\* effective fee; with an effective fee of 0 it holds no compute-budget
\* instruction.
C12_ComputeBudgetIffNonZeroFee ==
  \A p \in Procs :
    BuiltTransfer(call[p]) =>
      LET tx == call[p].transaction
          ins == tx.instructions
      IN /\ HasInstruction(tx, "setComputeUnitLimit") <=> RequestedFee(call[p]) # 0
         /\ HasInstruction(tx, "setComputeUnitPrice") <=> RequestedFee(call[p]) # 0
         /\ \A k \in DOMAIN ins :
              /\ ins[k].kind = "setComputeUnitLimit" => ins[k].units = DEFAULT_COMPUTE_UNITS
              /\ ins[k].kind = "setComputeUnitPrice" =>
                   ins[k].microLamports = RequestedFee(call[p])

C12_Witness ==
  \E p \in Procs :
    /\ BuiltTransfer(call[p])
    /\ ~call[p].priorityFee.given
    /\ HasInstruction(call[p].transaction, "setComputeUnitPrice")
    /\ call[p].pc = "done"

\* the end-to-end scenario: the sender holds at least the requested amount,
\* which is a whole number of raw units, the recipient's token account does
\* not exist, and the caller asks for a priority fee of 0
EndToEndScenario(c) ==
  /\ BuiltTransfer(c)
  /\ c.priorityFee.given /\ c.priorityFee.v = 0
  /\ c.balance.accountExists
  /\ ~BalanceIsInsufficient(c)
  /\ ~HasExcessPrecision(c.amount, c.balance.decimals)
  /\ Replied(c, "getAccount.exists", "notFound")
\* simulation, signing, submission, confirmation and the detail fetch succeeded
AllStepsSucceeded(c) ==
  /\ Replied(c, "simulateTransaction", "ok")
  /\ Replied(c, "signTransaction", "ok")
  /\ Replied(c, "sendRawTransaction", "ok")
  /\ Replied(c, "confirmTransaction", "ok")
  /\ Replied(c, "getTransaction", "ok")
\* the call returned a TransferResult carrying the signature the network
\* returned for the submission and the slot of the confirmation
ReturnedTransferResult(c) ==
  /\ c.pc = "done"
  /\ c.result.kind = "return"
  /\ c.result.value.signature = c.signature
  /\ c.result.value.signature \in Signatures
  /\ c.result.value.signature # ""
  /\ c.result.value.slot = c.slot
  /\ c.result.value.slot > 0

RejectionWordings ==
  {"User rejected the request", "Transaction CANCELLED", "Permission denied"}
\* the signer's signTransaction of call c failed
SignFailed(c) == Replied(c, "signTransaction", "throw")

\* C14: when the signer's signTransaction fails inside transferSwell the call
\* raises USER_REJECTED if the failure is an Error whose message contains
\* 'rejected', 'cancelled' or 'denied' in any letter case, and UNKNOWN for any
\* other signing failure; the error carries the failure as its cause and
\* nothing is submitted.
C14_SignFailureClassified ==
  \A p \in Procs :
    (call[p].op = "transferSwell" /\ SignFailed(call[p])) =>
      /\ call[p].pc = "done"
      /\ call[p].result.kind = "throw"
      /\ call[p].result.err.typed
      /\ IF call[p].result.err.cause.isError
            /\ call[p].result.err.cause.message \in RejectionWordings
         THEN call[p].result.err.code = "USER_REJECTED"
         ELSE call[p].result.err.code = "UNKNOWN"
      /\ call[p].result.err.cause \in {CauseOf(e) : e \in SignErrors}
      /\ ~Invoked(call[p], "sendRawTransaction")
      /\ ~Invoked(call[p], "confirmTransaction")

C14_Witness ==
  \E p \in Procs :
    /\ call[p].op = "transferSwell"
    /\ SignFailed(call[p])
    /\ call[p].result.err.cause.message = "Transaction CANCELLED"
    /\ Raised(call[p], "USER_REJECTED")

\* C15: transferSwell waits for the confirmation of the signature that
\* sendRawTransaction returned, with the blockhash and lastValidBlockHeight
\* that it fetched in this call and set on the transaction it built; when the
\* confirmation result carries an execution error the call raises
\* CONFIRMATION_FAILED and returns no TransferResult.
C15_ConfirmWithBuildBlockhash ==
  \A p \in Procs :
    call[p].op = "transferSwell" =>
      /\ Invoked(call[p], "confirmTransaction") =>
           /\ Replied(call[p], "getLatestBlockhash", "ok")
           /\ Replied(call[p], "sendRawTransaction", "ok")
           /\ [blockhash |-> call[p].blockhash,
               lastValidBlockHeight |-> call[p].lastValidBlockHeight] \in BlockhashReplies
           /\ call[p].transaction.recentBlockhash = call[p].blockhash
           /\ call[p].transaction.lastValidBlockHeight = call[p].lastValidBlockHeight
           /\ call[p].confirmWith.signature = call[p].signature
           /\ call[p].confirmWith.signature \in Signatures
           /\ call[p].confirmWith.blockhash = call[p].transaction.recentBlockhash
           /\ call[p].confirmWith.lastValidBlockHeight =
                call[p].transaction.lastValidBlockHeight
      /\ Replied(call[p], "confirmTransaction", "err") =>
           /\ Raised(call[p], "CONFIRMATION_FAILED")
           /\ ~Invoked(call[p], "getTransaction")

C15_Witness ==
  \E p \in Procs :
    /\ call[p].op = "transferSwell"
    /\ Replied(call[p], "confirmTransaction", "err")
    /\ call[p].confirmWith.blockhash = call[p].transaction.recentBlockhash
    /\ call[p].confirmWith.lastValidBlockHeight > 0
    /\ Raised(call[p], "CONFIRMATION_FAILED")

\* a failure was thrown by the submit, confirm or detail-fetch step of call c
SubmitStepFailed(c) ==
  \/ Replied(c, "sendRawTransaction", "throw")
  \/ Replied(c, "confirmTransaction", "throw")
  \/ Replied(c, "getTransaction", "throw")
\* the failure messages of the model that contain 'insufficient funds'
InsufficientFundsWordings ==
  {"insufficient funds for fee", "insufficient funds: blockhash expired"}
\* the failure messages of the model that contain 'blockhash not found' or
\* 'expired' when letter case is ignored
BlockhashWordings ==
  {"Blockhash not found", "block height exceeded: expired",
   "insufficient funds: blockhash expired"}

\* C16: a failure thrown during the submit / confirm / detail-fetch step of
\* transferSwell gives exactly one typed error: INSUFFICIENT_SOL when its
\* message contains 'insufficient funds'; otherwise CONFIRMATION_FAILED when
\* it contains 'blockhash not found' or 'expired'; otherwise NETWORK_ERROR;
\* the error carries the failure as its cause.  The typed CONFIRMATION_FAILED
\* raised inside the step for an execution error passes through unchanged.
C16_SubmitFailureClassified ==
  \A p \in Procs :
    call[p].op = "transferSwell" =>
      /\ SubmitStepFailed(call[p]) =>
           LET err == call[p].result.err
           IN /\ call[p].pc = "done"
              /\ call[p].result.kind = "throw"
              /\ err.typed
              /\ err.code =
                   IF err.cause.isError /\ err.cause.message \in InsufficientFundsWordings
                   THEN "INSUFFICIENT_SOL"
                   ELSE IF err.cause.isError /\ err.cause.message \in BlockhashWordings
                   THEN "CONFIRMATION_FAILED"
                   ELSE "NETWORK_ERROR"
              /\ err.cause \in {CauseOf(e) : e \in SubmitErrors \cup ConfirmErrors
                                                   \cup DetailErrors}
      /\ Replied(call[p], "confirmTransaction", "err") =>
           /\ call[p].result.kind = "throw"
           /\ call[p].result.err = SwellTransferError("CONFIRMATION_FAILED", NoCause)

C16_Witness ==
  \E p \in Procs :
    /\ call[p].op = "transferSwell"
    /\ Replied(call[p], "sendRawTransaction", "throw")
    /\ call[p].result.err.cause.message = "insufficient funds: blockhash expired"
    /\ Raised(call[p], "INSUFFICIENT_SOL")

\* the getSwellBalance invocation of call c has returned a TokenBalance
BalanceReturned(c) == c.bth = "ok"
\* TokenBalance.amount = rawAmount / 10^decimals is 0
AmountIsZero(bal) == bal.rawAmount = 0

\* C17: when the account read of getSwellBalance finds no token account,
\* getSwellBalance returns amount 0, rawAmount 0 and accountExists = false and
\* raises nothing; and every TokenBalance that getSwellBalance returns with
\* accountExists = false has amount 0.
C17_AbsentAccountGivesZeroBalance ==
  \A p \in Procs :
    /\ Replied(call[p], "getAccount.balance", "notFound") =>
         /\ BalanceReturned(call[p])
         /\ ~call[p].balance.accountExists
         /\ call[p].balance.rawAmount = 0
         /\ AmountIsZero(call[p].balance)
         /\ call[p].berr = NoError
         /\ call[p].op = "getSwellBalance" =>
              /\ call[p].pc = "done"
              /\ call[p].result.kind = "return"
              /\ call[p].result.value = call[p].balance
    /\ (BalanceReturned(call[p]) /\ ~call[p].balance.accountExists) =>
         AmountIsZero(call[p].balance)

C17_Witness ==
  \E p \in Procs :
    /\ call[p].op = "getSwellBalance"
    /\ Replied(call[p], "getAccount.balance", "notFound")
    /\ call[p].result.kind = "return"
    /\ ~call[p].result.value.accountExists

\* C18: when the account read inside getSwellBalance fails for a reason other
\* than the account being absent, getSwellBalance raises NETWORK_ERROR; and it
\* returns accountExists = false only when the read found the account absent.
C18_ReadFailureRaisesNetworkError ==
  \A p \in Procs :
    /\ Replied(call[p], "getAccount.balance", "throw") =>
         /\ call[p].bth = "err"
         /\ call[p].berr.typed
         /\ call[p].berr.code = "NETWORK_ERROR"
         /\ call[p].op = "getSwellBalance" => Raised(call[p], "NETWORK_ERROR")
    /\ (BalanceReturned(call[p]) /\ ~call[p].balance.accountExists) =>
         Replied(call[p], "getAccount.balance", "notFound")

\* call c is a resolveOrCreateSwellAccount call
IsResolve(c) == c.op = "resolveOrCreateSwellAccount"
\* the network calls of resolveOrCreateSwellAccount in the order of account.ts
ResolveSteps ==
  <<"getAccount.exists", "getLatestBlockhash", "simulateTransaction",
    "signTransaction", "sendRawTransaction", "confirmTransaction">>

\* C19: in resolveOrCreateSwellAccount, when the target account does not
\* exist, the create transaction is simulated before the signer is invoked;
\* the signer is invoked and the transaction submitted only if simulation
\* reported no error (a simulation error raises SIMULATION_FAILED with no sign
\* and no submit); and the call returns only after the confirmation of the
\* submitted signature has completed.
C19_CreateSimulatedBeforeSigning ==
  \A p \in Procs :
    IsResolve(call[p]) =>
      LET c == call[p]
          names == EventNames(c.trace)
      IN /\ Len(names) <= Len(ResolveSteps)
         /\ names = SubSeq(ResolveSteps, 1, Len(names))
         /\ Invoked(c, "simulateTransaction") =>
              /\ Replied(c, "getAccount.exists", "notFound")
              /\ c.transaction.instructions =
                   << [kind |-> "createAssociatedTokenAccount", payer |-> SenderKey,
                       owner |-> c.recipient.key] >>
         /\ Invoked(c, "signTransaction") => Replied(c, "simulateTransaction", "ok")
         /\ Invoked(c, "sendRawTransaction") =>
              (Replied(c, "simulateTransaction", "ok") /\ Replied(c, "signTransaction", "ok"))
         /\ Replied(c, "simulateTransaction", "err") =>
              /\ Raised(c, "SIMULATION_FAILED")
              /\ ~Invoked(c, "signTransaction")
              /\ ~Invoked(c, "sendRawTransaction")
         /\ (c.result.kind = "return" /\ ~c.result.value.existed) =>
              /\ Replied(c, "sendRawTransaction", "ok")
              /\ c.confirmWith.signature = c.signature
              /\ c.result.value.createSignature = <<c.signature>>
              /\ Replied(c, "confirmTransaction", "ok")
                   \/ Replied(c, "confirmTransaction", "err")

C19_Witness ==
  \E p \in Procs :
    /\ IsResolve(call[p])
    /\ call[p].result.kind = "return"
    /\ ~call[p].result.value.existed
    /\ Replied(call[p], "simulateTransaction", "ok")
    /\ Replied(call[p], "confirmTransaction", "ok")

\* C20: in resolveOrCreateSwellAccount, when the target's token account
\* exists, the call returns existed = true, createSignature = null and the
\* address derived for the target, having fetched no blockhash, simulated
\* nothing, not invoked the signer and submitted nothing; and in every result
\* createSignature is non-null exactly when existed = false.
C20_ExistingAccountReturnedAsIs ==
  \A p \in Procs :
    IsResolve(call[p]) =>
      LET c == call[p]
      IN /\ Replied(c, "getAccount.exists", "ok") =>
              /\ c.pc = "done"
              /\ c.result.kind = "return"
              /\ c.result.value.existed
              /\ c.result.value.createSignature = <<>>
              /\ EventNames(c.trace) = <<"getAccount.exists">>
              /\ c.transaction = NoTransaction
         /\ c.result.kind = "return" =>
              /\ c.result.value.address = <<"ata", c.recipient.key>>
              /\ (c.result.value.createSignature # <<>>) <=> ~c.result.value.existed
              /\ c.result.value.existed <=> Replied(c, "getAccount.exists", "ok")

C20_Witness ==
  \E p \in Procs :
    /\ IsResolve(call[p])
    /\ Replied(call[p], "getAccount.exists", "ok")
    /\ call[p].recipient.key = "other"
    /\ call[p].result.kind = "return"
    /\ call[p].result.value.existed

\* C21: resolveOrCreateSwellAccount raises SIMULATION_FAILED exactly when
\* simulation reported an error, USER_REJECTED exactly when the signer
\* declined (signTransaction failed with a rejection wording), and
\* ACCOUNT_CREATION_FAILED when sendRawTransaction fails, whatever the text of
\* that failure.
C21_CreateFailureCodes ==
  \A p \in Procs :
    (IsResolve(call[p]) /\ call[p].pc = "done") =>
      LET c == call[p]
      IN /\ Raised(c, "SIMULATION_FAILED") <=> Replied(c, "simulateTransaction", "err")
         /\ Raised(c, "USER_REJECTED") <=>
              /\ SignFailed(c)
              /\ c.result.err.cause.isError
              /\ c.result.err.cause.message \in RejectionWordings
         /\ Replied(c, "sendRawTransaction", "throw") => Raised(c, "ACCOUNT_CREATION_FAILED")

\* the provider calls a caller has made, in order
ProviderLog(c) == IF c.op = "connectionCalls" THEN c.trace ELSE << >>
ReturnsInstance(e) == e.ev \in {"getConnection", "createConnection"}
\* no resetConnection among the calls i..j of log L
NoResetBetween(L, i, j) == \A k \in i..j : L[k].ev # "resetConnection"
\* call j of log L is the first getConnection after a resetConnection
FirstGetAfterReset(L, j) ==
  /\ L[j].ev = "getConnection"
  /\ \E i \in 1..(j - 1) :
       /\ L[i].ev = "resetConnection"
       /\ \A k \in (i + 1)..(j - 1) : L[k].ev # "getConnection"

\* C22: in every sequence of getConnection, createConnection and
\* resetConnection calls, two getConnection calls with no resetConnection
\* between them return the same instance; the first getConnection after a
\* resetConnection returns an instance no earlier call returned;
\* createConnection returns an instance no other call returns, so it never
\* changes what getConnection returns.
C22_ConnectionProvider ==
  \A p \in Procs :
    LET L == ProviderLog(call[p])
    IN \A j \in DOMAIN L :
         /\ ReturnsInstance(L[j]) => L[j].conn > 0
         /\ \A i \in 1..(j - 1) :
              (L[i].ev = "getConnection" /\ L[j].ev = "getConnection"
                 /\ NoResetBetween(L, i, j)) => L[i].conn = L[j].conn
         /\ FirstGetAfterReset(L, j) =>
              \A i \in 1..(j - 1) : ReturnsInstance(L[i]) => L[i].conn # L[j].conn
         /\ L[j].ev = "createConnection" =>
              \A i \in DOMAIN L : (i # j /\ ReturnsInstance(L[i])) => L[i].conn # L[j].conn
         /\ (j = Len(L) /\ L[j].ev = "getConnection") => connectionSingleton = <<L[j].conn>>

C22_Witness ==
  \E p \in Procs :
    LET L == ProviderLog(call[p])
    IN /\ Len(L) = 4
       /\ L[1].ev = "getConnection"
       /\ L[2].ev = "createConnection"
       /\ L[3].ev = "getConnection"
       /\ L[1].conn = L[3].conn
       /\ L[4].ev = "resetConnection"

\* C23: under every interleaving of getSwellDecimals calls (direct, or inside
\* getSwellBalance and transferSwell, several of them racing on an empty
\* cache) and clearSwellDecimalsCache calls, the decimals cache is either
\* empty or holds the decimals of the mint, which a successful fetch returned;
\* every getSwellDecimals call that returns yields the mint's decimals; a race
\* on the empty cache gives redundant fetches and the same cached value.
C23_CacheEmptyOrMintValue ==
  /\ cachedDecimals \in {<<>>, <<mintDecimals>>}
  /\ cachedDecimals # <<>> => MintFetchSucceeded
  /\ \A p \in Procs :
       /\ (call[p].op = "getSwellDecimals" /\ call[p].result.kind = "return") =>
            call[p].result.value.decimals = mintDecimals
       /\ call[p].dth = "ok" => call[p].decimals = <<mintDecimals>>
       /\ call[p].bdecimals \in {<<>>, <<mintDecimals>>}

C23_Witness ==
  /\ cachedDecimals = <<mintDecimals>>
  /\ mintDecimals > 0
  /\ \A p \in Procs :
       /\ call[p].op = "getSwellDecimals"
       /\ Replied(call[p], "getMint", "ok")
       /\ call[p].result.kind = "return"
       /\ call[p].result.value.decimals = mintDecimals

\* C24: the first getSwellDecimals call started after clearSwellDecimalsCache
\* has returned fetches the mint again; also when a fetch that was started
\* before the clear completes after it.  (Each caller makes one call: when the
\* cache was cleared after the other caller's call started, the call now
\* starting is the next one after that clear.)
C24_NextCallAfterClearFetches ==
  [][ \A p, q \in Procs :
        (p # q /\ call[p].op = "idle" /\ call'[p].op = "getSwellDecimals"
           /\ call[q].clearedAfterStart) =>
          Invoked(call'[p], "getMint")
    ]_vars

\* ------------------------------------------------------------------ C25
\* the raw amount r is floor(amount * 10^d): r <= amount * 10^d < r + 1
IsFloorOf(r, amount, d) ==
  /\ r * AmountScale <= amount.v * Pow10(d)
  /\ amount.v * Pow10(d) < (r + 1) * AmountScale

\* the amount of the transfer instruction of transaction tx
TransferInstructionAmount(tx) ==
  LET k == CHOOSE i \in DOMAIN tx.instructions : tx.instructions[i].kind = "transfer"
  IN tx.instructions[k].amount

ConvertedToRaw(c) ==
  c.op = "toRawAmount" /\ c.pc = "done" /\ c.result.kind = "return"
ConvertedBack(c) ==
  c.op = "fromRawAmount" /\ c.pc = "done" /\ c.result.kind = "return"

ConfirmedWithoutError(c) ==
  c.op = "transferSwell" /\ Replied(c, "confirmTransaction", "ok")

\* C26: when the confirmation of the submitted transfer reports no execution
\* error, transferSwell returns a TransferResult and does not raise, also
\* when fetching the transaction details afterwards fails.
C26_ConfirmedTransferReturns ==
  \A p \in Procs :
    (ConfirmedWithoutError(call[p]) /\ call[p].pc = "done") =>
      call[p].result.kind = "return"

\* ------------------------------------------------------------------ C27
\* resolveOrCreateSwellAccount has returned existed = false
ReportedCreated(c) ==
  /\ IsResolve(c)
  /\ c.pc = "done"
  /\ c.result.kind = "return"
  /\ ~c.result.value.existed

\* C27: resolveOrCreateSwellAccount reports the account as created
\* (existed = false with a createSignature) only if the create transaction
\* was confirmed without an execution error; a confirmation that carries an
\* execution error makes the call raise.
C27_CreatedOnlyIfConfirmedWithoutError ==
  \A p \in Procs :
    LET c == call[p]
    IN /\ ReportedCreated(c) => Replied(c, "confirmTransaction", "ok")
       /\ (IsResolve(c) /\ Replied(c, "confirmTransaction", "err")) =>
            (c.pc = "done" /\ c.result.kind = "throw")

\* ------------------------------------------------------------------ C28
\* C28: every transfer instruction that transferSwell builds moves at least
\* one raw unit and at most the sender's raw balance read in the same call.
C28_TransferMovesAtLeastOneUnit ==
  \A p \in Procs :
    BuiltTransfer(call[p]) =>
      /\ TransferInstructionAmount(call[p].transaction) >= 1
      /\ TransferInstructionAmount(call[p].transaction) <= call[p].balance.rawAmount

\* ------------------------------------------------------------------ C29
\* call record c is a transferSwell rejected at validation
RejectedAtValidation(c) ==
  /\ c.op = "transferSwell"
  /\ Raised(c, "INVALID_AMOUNT") \/ Raised(c, "INVALID_RECIPIENT")

\* C29: a transferSwell call that is rejected at validation leaves the
\* connection singleton and the decimals cache as they were before the call.
C29_RejectedCallLeavesStateAlone ==
  [][ \A p \in Procs :
        (call[p].op = "idle" /\ RejectedAtValidation(call'[p])) =>
          /\ connectionSingleton' = connectionSingleton
          /\ cachedDecimals' = cachedDecimals
    ]_vars

\* ------------------------------------------------------------------ C30
\* the network calls of call record c: every logged call but the signer's
NetworkCalls(c) ==
  SelectSeq(c.trace, LAMBDA e : e.ev # "signTransaction")

\* C30: all network calls of one transferSwell invocation go through the
\* Connection instance the invocation obtained at its start, also when
\* resetConnection() is called while it is suspended.
C30_OneConnectionPerTransfer ==
  \A p \in Procs :
    call[p].op = "transferSwell" =>
      \A k \in DOMAIN NetworkCalls(call[p]) :
        NetworkCalls(call[p])[k].conn = call[p].connection

====
